---- MODULE Spec2Model ----
(***************************************************************************)
(* The P25 forward-error-correction codecs: the (16,8,5) shortened cyclic  *)
(* code of coding/cyclic.rs and the (15,11,3) standard and (10,6,3)        *)
(* shortened Hamming codes of coding/hamming.rs.                           *)
(*                                                                         *)
(* A behaviour is one use of a codec: a caller encodes a data word, the    *)
(* channel flips some bits of the codeword, and the receiver decodes the   *)
(* word it got; or the receiver decodes a word that no encoder sent.       *)
(* Machine words are naturals kept inside their Rust width (u8, u16, u32). *)
(***************************************************************************)
EXTENDS Naturals, Sequences, FiniteSets

VARIABLES
    code,    \* which codec this behaviour uses
    pc,      \* position: idle, sent, recv, fold, done, encode_abort, decode_abort, rotate
    data,    \* Option: the argument of encode
    cw,      \* Option: the codeword encode returned
    err,     \* the bits the channel has flipped so far
    arg,     \* Option: the argument of decode (of rotate_17 in SpecRotate)
    word,    \* cyclic::decode's fold accumulator: the 17-bit word (u32)
    fixed,   \* cyclic::decode's fold accumulator: Option<u32>
    step,    \* fold steps (rotations) done
    trace,   \* which branch each fold step took: "zero", "fix" or "miss"
    result   \* Option<(data, err)>: what decode returned

vars == <<code, pc, data, cw, err, arg, word, fixed, step, trace, result>>

(***************************************************************************)
(* Bounds of the model.                                                    *)
(***************************************************************************)
\* The channel flips at most this many bits of a codeword.
MaxFlips == 4

\* The channel flips up to MaxFlips bits of the codewords of the data words
\* number 0..MaxSample of each code's sample, and at most one bit of the
\* codeword of any other data word.
MaxSample == 2

(***************************************************************************)
(* Option<T>: None is the empty tuple, Some(x) the one-element tuple.      *)
(***************************************************************************)
None == <<>>

Some(x) == <<x>>

Unwrap(o) == o[1]

(***************************************************************************)
(* Rust's bit operators on unsigned words. & and ^ go four bits at a time  *)
(* through tables built from the one-bit definitions.                      *)
(***************************************************************************)
Pow2(n) == 2 ^ n

Bit(w, i) == (w \div Pow2(i)) % 2

RECURSIVE And1(_, _)
And1(a, b) ==
    IF a = 0 \/ b = 0 THEN 0
    ELSE ((a % 2) * (b % 2)) + 2 * And1(a \div 2, b \div 2)

RECURSIVE Xor1(_, _)
Xor1(a, b) ==
    IF a = 0 THEN b
    ELSE IF b = 0 THEN a
    ELSE ((a + b) % 2) + 2 * Xor1(a \div 2, b \div 2)

RECURSIVE Ones1(_)
Ones1(w) == IF w = 0 THEN 0 ELSE (w % 2) + Ones1(w \div 2)

AndNibble == [a \in 0..15 |-> [b \in 0..15 |-> And1(a, b)]]

XorNibble == [a \in 0..15 |-> [b \in 0..15 |-> Xor1(a, b)]]

OnesNibble == [a \in 0..15 |-> Ones1(a)]

RECURSIVE BitAnd(_, _)
BitAnd(a, b) ==
    IF a = 0 \/ b = 0 THEN 0
    ELSE AndNibble[a % 16][b % 16] + 16 * BitAnd(a \div 16, b \div 16)

RECURSIVE BitXor(_, _)
BitXor(a, b) ==
    IF a = 0 THEN b
    ELSE IF b = 0 THEN a
    ELSE XorNibble[a % 16][b % 16] + 16 * BitXor(a \div 16, b \div 16)

RECURSIVE count_ones(_)
count_ones(w) == IF w = 0 THEN 0 ELSE OnesNibble[w % 16] + count_ones(w \div 16)

Shr(w, n) == w \div Pow2(n)

\* w << n on a word of `width` bits: the bits shifted past the top are lost.
Shl(w, n, width) == (w % Pow2(width - n)) * Pow2(n)

(***************************************************************************)
(* matrix_mul!(word, mat, ty): one output bit per row of mat, the parity   *)
(* of word & row, the first row ending in the most significant bit.        *)
(* matrix_mul_systematic! starts the accumulator at the word itself, so    *)
(* the data bits end up above the parity bits.                             *)
(* The macros are defined outside coding/; they are modelled here from the *)
(* design description of the GF(2) multiply and from their call sites: a   *)
(* table of 4 (8) rows gives a syndrome of 4 (8) bits, and the tables are  *)
(* documented as the patterns "for 4 parity bits" and "for 4 syndromes".   *)
(***************************************************************************)
RECURSIVE MatFold(_, _, _, _, _)
MatFold(w, mat, k, accum, width) ==
    IF k > Len(mat) THEN accum
    ELSE MatFold(w, mat, k + 1,
                 Shl(accum, 1, width) + (count_ones(BitAnd(w, mat[k])) % 2),
                 width)

matrix_mul(w, mat, width) == MatFold(w, mat, 1, 0, width)

matrix_mul_systematic(w, mat, width) ==
    MatFold(w, mat, 1, w % Pow2(width), width)

(***************************************************************************)
(* coding/cyclic.rs                                                        *)
(***************************************************************************)
\* The first two rows exchanged.
CYC_GEN_RowsSwapped == <<158, 60, 79, 27, 177, 228, 242, 121>>

\* 0b00111100, 0b10011110, 0b01001111, 0b00011011,
\* 0b10110001, 0b11100100, 0b11110010, 0b01111001
CYC_GEN == <<60, 158, 79, 27, 177, 228, 242, 121>>

\* 0b10000000100111100, 0b01000000010011110, 0b00100000001001111,
\* 0b00010000100011011, 0b00001000110110001, 0b00000100111100100,
\* 0b00000010011110010, 0b00000001001111001
CYC_PAR == <<65852, 32926, 16463, 8475, 4529, 2532, 1266, 633>>

cyclic_encode(d) == matrix_mul_systematic(d, CYC_GEN, 16)

cyclic_syndrome(w) == matrix_mul(w, CYC_PAR, 8)

\* The match of pattern(), arm by arm, over every u8 syndrome.
PatternMatch ==
    [syn \in 0..255 |->
        CASE syn = 25 -> Some(16385)
          [] syn = 30 -> Some(65)
          [] syn = 41 -> Some(8193)
          [] syn = 49 -> Some(4097)
          [] syn = 56 -> Some(513)
          [] syn = 57 -> Some(1)
          [] syn = 59 -> Some(1025)
          [] syn = 61 -> Some(2049)
          [] syn = 75 -> Some(3)
          [] syn = 119 -> Some(129)
          [] syn = 121 -> Some(32769)
          [] syn = 165 -> Some(257)
          [] syn = 182 -> Some(33)
          [] syn = 185 -> Some(65537)
          [] syn = 200 -> Some(9)
          [] syn = 221 -> Some(5)
          [] syn = 226 -> Some(17)
          [] OTHER -> None]

\* A table whose last arm has a stray bit: 0b10011 for 0b10001.
pattern_StrayBit(syn) == IF syn = 226 THEN Some(19) ELSE PatternMatch[syn]

\* A table whose arm for 0b01001011 holds the pattern of another arm.
pattern_ArmMixedUp(syn) == IF syn = 75 THEN Some(5) ELSE PatternMatch[syn]

pattern(syn) == PatternMatch[syn]

\* The set bit lands on bit 15: a rotation of a 16-bit word.
rotate_17_Sixteen(w) == Shr(w, 1) + Shl(w % 2, 15, 32)

rotate_17(w) == Shr(w, 1) + Shl(w % 2, 16, 32)

(***************************************************************************)
(* coding/hamming.rs                                                       *)
(***************************************************************************)
\* 0b11111110000, 0b11110001110, 0b11001101101, 0b10101011011
STD_GEN == <<2032, 1934, 1645, 1371>>

\* The last row without its own parity bit.
STD_PAR_ParityBitLost == <<32520, 30948, 26322, 21936>>

\* 0b111111100001000, 0b111100011100100,
\* 0b110011011010010, 0b101010110110001
STD_PAR == <<32520, 30948, 26322, 21937>>

\* The locations in the order of the bits, not of the syndromes.
STD_LOCATIONS_BitOrder ==
    <<0, 1, 2, 4, 8, 16, 32, 64, 128, 256, 512, 1024, 2048, 4096, 8192, 16384>>

STD_LOCATIONS ==
    <<0, 1, 2, 16, 4, 32, 64, 128, 8, 256, 512, 1024, 2048, 4096, 8192, 16384>>

\* 0b111001, 0b110101, 0b101110, 0b011110
SHORT_GEN == <<57, 53, 46, 30>>

\* 0b1110011000, 0b1101010100, 0b1011100010, 0b0111100001
SHORT_PAR == <<920, 852, 738, 481>>

\* The entries of the syndromes 3 and 12 exchanged.
SHORT_LOCATIONS_Exchanged ==
    <<0, 1, 2, 16, 4, 0, 0, 64, 8, 0, 0, 128, 32, 256, 512, 0>>

SHORT_LOCATIONS ==
    <<0, 1, 2, 32, 4, 0, 0, 64, 8, 0, 0, 128, 16, 256, 512, 0>>

\* The assertions that open the four Hamming functions.
\* Asserts that are one bit too wide.
standard_encode_assert_Wide(d) == Shr(d, 12) = 0

standard_decode_assert_Wide(w) == Shr(w, 16) = 0

standard_encode_assert(d) == Shr(d, 11) = 0

standard_decode_assert(w) == Shr(w, 15) = 0

shortened_encode_assert(d) == Shr(d, 6) = 0

shortened_decode_assert(w) == Shr(w, 10) = 0

standard_encode(d) == matrix_mul_systematic(d, STD_GEN, 16)

shortened_encode(d) == matrix_mul_systematic(d, SHORT_GEN, 16)

\* The HammingDecoder implementations: par(), locs() and data().
par(c) == IF c = "standard" THEN STD_PAR ELSE SHORT_PAR

locs(c) == IF c = "standard" THEN STD_LOCATIONS ELSE SHORT_LOCATIONS

data_bits(c, w) == IF c = "standard" THEN Shr(w, 4) ELSE Shr(w, 4) % 256

hamming_syndrome(c, w) == matrix_mul(w, par(c), 8)

\* HammingDecoder::decode
hamming_decode(c, w) ==
    LET s == hamming_syndrome(c, w)
    IN  IF s = 0 THEN Some(<<data_bits(c, w), 0>>)
        ELSE IF s >= Len(locs(c)) \/ locs(c)[s + 1] = 0 THEN None
        ELSE Some(<<data_bits(c, BitXor(w, locs(c)[s + 1])), 1>>)

(***************************************************************************)
(* The callers' inputs.                                                    *)
(***************************************************************************)
\* The values of the argument type of each encode (u8, u16, u8).
EncodeArgs(c) == IF c = "standard" THEN 0..65535 ELSE 0..255

\* The bits of a codeword that travel: the code's significant width.
Width(c) ==
    CASE c = "cyclic" -> 16
      [] c = "standard" -> 15
      [] c = "shortened" -> 10

\* The data words sent over a noisy channel: multiples of the data word of
\* the code's unit test (0b10101011, 0b10101010101, 0b110011).
Sample(c) ==
    CASE c = "cyclic" -> {(171 * k) % 256 : k \in 0..MaxSample}
      [] c = "standard" -> {(1365 * k) % 2048 : k \in 0..MaxSample}
      [] c = "shortened" -> {(51 * k) % 64 : k \in 0..MaxSample}

FlipsAllowed(c, d) == IF d \in Sample(c) THEN MaxFlips ELSE 1

InitCode(c) ==
    /\ code = c
    /\ pc = "idle"
    /\ data = None
    /\ cw = None
    /\ err = 0
    /\ arg = None
    /\ word = 0
    /\ fixed = None
    /\ step = 0
    /\ trace = <<>>
    /\ result = None

(***************************************************************************)
(* encode                                                                  *)
(***************************************************************************)
CyclicEncode ==
    /\ code = "cyclic"
    /\ pc = "idle"
    /\ \E d \in EncodeArgs(code) :
          /\ data' = Some(d)
          /\ cw' = Some(cyclic_encode(d))
          /\ pc' = "sent"
    /\ UNCHANGED <<code, err, arg, word, fixed, step, trace, result>>

StandardEncode ==
    /\ code = "standard"
    /\ pc = "idle"
    /\ \E d \in EncodeArgs(code) :
          /\ data' = Some(d)
          /\ IF standard_encode_assert(d)
             THEN cw' = Some(standard_encode(d)) /\ pc' = "sent"
             ELSE cw' = None /\ pc' = "encode_abort"
    /\ UNCHANGED <<code, err, arg, word, fixed, step, trace, result>>

ShortenedEncode ==
    /\ code = "shortened"
    /\ pc = "idle"
    /\ \E d \in EncodeArgs(code) :
          /\ data' = Some(d)
          /\ IF shortened_encode_assert(d)
             THEN cw' = Some(shortened_encode(d)) /\ pc' = "sent"
             ELSE cw' = None /\ pc' = "encode_abort"
    /\ UNCHANGED <<code, err, arg, word, fixed, step, trace, result>>

(***************************************************************************)
(* The channel between encode and decode.                                  *)
(***************************************************************************)
ChannelFlip ==
    /\ pc = "sent"
    /\ count_ones(err) < FlipsAllowed(code, Unwrap(data))
    /\ \E i \in 0..(Width(code) - 1) :
          /\ Bit(err, i) = 0
          /\ err' = err + Pow2(i)
    /\ UNCHANGED <<code, pc, data, cw, arg, word, fixed, step, trace, result>>

ChannelDeliver ==
    /\ pc = "sent"
    /\ arg' = Some(BitXor(Unwrap(cw), err))
    /\ pc' = "recv"
    /\ UNCHANGED <<code, data, cw, err, word, fixed, step, trace, result>>

\* A 16-bit word that no encoder of this model sent reaches a Hamming
\* decoder.
Receive ==
    /\ code \in {"standard", "shortened"}
    /\ pc = "idle"
    /\ \E w \in 0..65535 : arg' = Some(w)
    /\ pc' = "recv"
    /\ UNCHANGED <<code, data, cw, err, word, fixed, step, trace, result>>

(***************************************************************************)
(* cyclic::decode: the fold over 0..17 and the final match.                *)
(***************************************************************************)
CyclicDecodeBegin ==
    /\ code = "cyclic"
    /\ pc = "recv"
    /\ pc' = "fold"
    /\ fixed' = Some(0)
    /\ word' = Unwrap(arg)
    /\ step' = 0
    /\ trace' = <<>>
    /\ UNCHANGED <<code, data, cw, err, arg, result>>

CyclicDecodeStep ==
    /\ pc = "fold"
    /\ step < 17
    \* syndrome and pat are bound once, as the let and the match bind them
    /\ \E syndrome \in {cyclic_syndrome(word)} : \E pat \in {pattern(syndrome)} :
           IF syndrome = 0
           THEN /\ fixed' = fixed
                /\ word' = rotate_17(word)
                /\ trace' = Append(trace, "zero")
           ELSE IF pat # None
           THEN /\ fixed' = Some(count_ones(Unwrap(pat)))
                /\ word' = rotate_17(BitXor(word, Unwrap(pat)))
                /\ trace' = Append(trace, "fix")
           ELSE /\ fixed' = None
                /\ word' = rotate_17(word)
                /\ trace' = Append(trace, "miss")
    /\ step' = step + 1
    /\ UNCHANGED <<code, pc, data, cw, err, arg, result>>

CyclicDecodeEnd ==
    /\ pc = "fold"
    /\ step = 17
    /\ pc' = "done"
    /\ result' = IF fixed = None THEN None
                 ELSE Some(<<Shr(word, 8) % 256, Unwrap(fixed)>>)
    /\ UNCHANGED <<code, data, cw, err, arg, word, fixed, step, trace>>

(***************************************************************************)
(* standard::decode and shortened::decode                                  *)
(***************************************************************************)
StandardDecode ==
    /\ code = "standard"
    /\ pc = "recv"
    /\ IF standard_decode_assert(Unwrap(arg))
       THEN result' = hamming_decode(code, Unwrap(arg)) /\ pc' = "done"
       ELSE result' = None /\ pc' = "decode_abort"
    /\ UNCHANGED <<code, data, cw, err, arg, word, fixed, step, trace>>

ShortenedDecode ==
    /\ code = "shortened"
    /\ pc = "recv"
    /\ IF shortened_decode_assert(Unwrap(arg))
       THEN result' = hamming_decode(code, Unwrap(arg)) /\ pc' = "done"
       ELSE result' = None /\ pc' = "decode_abort"
    /\ UNCHANGED <<code, data, cw, err, arg, word, fixed, step, trace>>

(***************************************************************************)
(* rotate_17 applied over and over to a 17-bit word.                       *)
(***************************************************************************)
InitRotate ==
    /\ code = "cyclic"
    /\ pc = "rotate"
    /\ data = None
    /\ cw = None
    /\ err = 0
    /\ \E w \in 0..(Pow2(17) - 1) : arg = Some(w) /\ word = w
    /\ fixed = None
    /\ step = 0
    /\ trace = <<>>
    /\ result = None

Rotate ==
    /\ pc = "rotate"
    /\ step < 17
    /\ word' = rotate_17(word)
    /\ step' = step + 1
    /\ UNCHANGED <<code, pc, data, cw, err, arg, fixed, trace, result>>

(***************************************************************************)
(* Specifications.                                                         *)
(***************************************************************************)
Channel == ChannelFlip \/ ChannelDeliver

NextCyclic ==
    CyclicEncode \/ Channel \/ CyclicDecodeBegin \/ CyclicDecodeStep \/ CyclicDecodeEnd

NextHamming ==
    StandardEncode \/ ShortenedEncode \/ Channel \/ Receive
        \/ StandardDecode \/ ShortenedDecode

Init == \E c \in {"cyclic", "standard", "shortened"} : InitCode(c)

Next ==
    \/ CyclicEncode \/ StandardEncode \/ ShortenedEncode
    \/ ChannelFlip \/ ChannelDeliver \/ Receive
    \/ CyclicDecodeBegin \/ CyclicDecodeStep \/ CyclicDecodeEnd
    \/ StandardDecode \/ ShortenedDecode

Spec == Init /\ [][Next]_vars

InitCyclic == InitCode("cyclic")

SpecCyclic == InitCyclic /\ [][NextCyclic]_vars

InitHamming == \E c \in {"standard", "shortened"} : InitCode(c)

SpecHamming == InitHamming /\ [][NextHamming]_vars

SpecRotate == InitRotate /\ [][Rotate]_vars

(***************************************************************************)
(* What the claims are stated with.                                        *)
(***************************************************************************)
Hamming == {"standard", "shortened"}

\* The in-width data words of each code.
DataWords(c) ==
    CASE c = "cyclic" -> 0..255
      [] c = "standard" -> 0..2047
      [] c = "shortened" -> 0..63

encode(c, d) ==
    CASE c = "cyclic" -> cyclic_encode(d)
      [] c = "standard" -> standard_encode(d)
      [] c = "shortened" -> shortened_encode(d)

\* Every codeword of each code.
CyclicCodewords == {cyclic_encode(d) : d \in DataWords("cyclic")}

StandardCodewords == {standard_encode(d) : d \in DataWords("standard")}

ShortenedCodewords == {shortened_encode(d) : d \in DataWords("shortened")}

Codewords(c) ==
    CASE c = "cyclic" -> CyclicCodewords
      [] c = "standard" -> StandardCodewords
      [] c = "shortened" -> ShortenedCodewords

\* The number of bit positions in which two words differ.
Distance(a, b) == count_ones(BitXor(a, b))

\* A decode call has returned (it did not abort).
Returned == pc = "done"

\* The decoder was handed a codeword of encode with these bits flipped.
Sent == data # None /\ arg # None

(***************************************************************************)
(* C1. decode(encode(d)) = Some((d, 0)) for every in-width data word d of  *)
(* each of the three codes: a codeword that crosses the channel untouched  *)
(* is decoded, to the data it was made from, with count 0.                 *)
(***************************************************************************)
C1_RoundTrip ==
    (Sent /\ err = 0 /\ pc \in {"done", "decode_abort"}) =>
        /\ Returned
        /\ result = Some(<<Unwrap(data), 0>>)

C1_Witness ==
    /\ code = "standard" /\ Returned /\ err = 0
    /\ data = Some(1365)
    /\ result = Some(<<1365, 0>>)

(***************************************************************************)
(* C2. One flipped bit is corrected by all three codes: for every in-width *)
(* data word d and every bit i of the code's significant width,            *)
(* decode(encode(d) XOR (1 << i)) = Some((d, 1)).                          *)
(***************************************************************************)
C2_SingleBit ==
    (Sent /\ count_ones(err) = 1 /\ pc \in {"done", "decode_abort"}) =>
        /\ Returned
        /\ result = Some(<<Unwrap(data), 1>>)

C2_Witness ==
    /\ code = "shortened" /\ Returned
    /\ data = Some(51) /\ err = 512
    /\ result = Some(<<51, 1>>)

(***************************************************************************)
(* C3. Two flipped bits are corrected by the cyclic code: for every data   *)
(* word d and every pattern e of exactly two of the 16 codeword bits,      *)
(* cyclic::decode(cyclic::encode(d) XOR e) = Some((d, 2)).                 *)
(***************************************************************************)
C3_DoubleBit ==
    (code = "cyclic" /\ Sent /\ count_ones(err) = 2 /\ Returned) =>
        result = Some(<<Unwrap(data), 2>>)

\* The scenario of the unit test: 0b10101011 sent, bits 15 and 0 flipped.
C3_Witness ==
    /\ code = "cyclic" /\ Returned
    /\ data = Some(171) /\ err = 32769
    /\ result = Some(<<171, 2>>)

(***************************************************************************)
(* C4. cyclic::decode succeeds only inside the correction radius: whenever *)
(* it returns Some((d, e)), e <= 2 and the codeword encode(d) differs from *)
(* the decoded word in exactly e bit positions.                            *)
(***************************************************************************)
C4_WithinRadius ==
    (code = "cyclic" /\ Returned /\ result # None) =>
        /\ Unwrap(result)[2] <= 2
        /\ Distance(cyclic_encode(Unwrap(result)[1]), Unwrap(arg))
              = Unwrap(result)[2]

(***************************************************************************)
(* C5. The Hamming encoders refuse data wider than the code: encode aborts *)
(* exactly for the arguments with a bit set at or above the data width (11 *)
(* for standard, 6 for shortened), and for every other argument returns a  *)
(* codeword that holds the data, whole, above its 4 parity bits.           *)
(***************************************************************************)
DataWidth(c) == IF c = "standard" THEN 11 ELSE 6

C5_EncodeWidth ==
    (code \in Hamming /\ data # None) =>
        IF \E i \in DataWidth(code)..15 : Bit(Unwrap(data), i) = 1
        THEN pc = "encode_abort" /\ cw = None
        ELSE /\ pc # "encode_abort"
             /\ cw # None
             /\ Shr(Unwrap(cw), 4) = Unwrap(data)

C5_Witness ==
    /\ code = "standard"
    /\ pc = "encode_abort"
    /\ data = Some(2048)

(***************************************************************************)
(* C6. rotate_17 rotates a 17-bit word right by one: the result is below   *)
(* 2^17, bit 0 of w is bit 16 of the result, every bit i in 1..16 of w is  *)
(* bit i-1 of the result, and 17 rotations give w back.                    *)
(***************************************************************************)
C6_Rotate ==
    pc = "rotate" =>
        /\ word < Pow2(17)
        /\ step = 1 =>
              /\ Bit(word, 16) = Bit(Unwrap(arg), 0)
              /\ \A i \in 1..16 : Bit(word, i - 1) = Bit(Unwrap(arg), i)
        /\ step = 17 => word = Unwrap(arg)

\* The word of the unit test, 0b11100011001010101, after its 17 rotations.
C6_Witness ==
    /\ pc = "rotate" /\ step = 17
    /\ arg = Some(116309)
    /\ word = 116309

(***************************************************************************)
(* C7. The Hamming decoders decode to exactly the codewords within one bit *)
(* of the word: for every in-width word w, decode(w) = Some((d, e)) exactly*)
(* when encode(d) differs from w in e <= 1 bits, and None exactly when no  *)
(* codeword is within one bit of w. shortened::decode returns None exactly *)
(* for the syndromes 5, 6, 9, 10 and 15; standard::decode never does.      *)
(***************************************************************************)
\* The words at most one bit away from w.
Ball1(c, w) == {w} \cup {BitXor(w, Pow2(i)) : i \in 0..(Width(c) - 1)}

\* encode keeps the data above the parity bits, so a codeword has one data
\* word and data_bits reads it.
Systematic ==
    \A c \in Hamming : \A d \in DataWords(c) : data_bits(c, encode(c, d)) = d

C7_Radius1 ==
    (code \in Hamming /\ Returned) =>
        LET w == Unwrap(arg)
            near == Ball1(code, w) \cap Codewords(code)
        IN  /\ Systematic
            /\ result # None =>
                  /\ Unwrap(result)[2] <= 1
                  /\ Unwrap(result)[1] \in DataWords(code)
                  /\ Distance(encode(code, Unwrap(result)[1]), w)
                        = Unwrap(result)[2]
            /\ \A cword \in near :
                  result = Some(<<data_bits(code, cword), Distance(cword, w)>>)
            /\ result = None <=> near = {}
            /\ code = "standard" => result # None
            /\ code = "shortened" =>
                  (result = None <=>
                      hamming_syndrome(code, w) \in {5, 6, 9, 10, 15})

C7_Witness ==
    /\ code = "shortened" /\ Returned
    /\ result = None
    /\ hamming_syndrome(code, Unwrap(arg)) = 15

(***************************************************************************)
(* C8. The zero syndrome marks the codewords: for each code and every word *)
(* w of the code's width handed to decode, the PAR syndrome of w is zero   *)
(* if and only if w = encode(d) for an in-width d; and the cyclic decoder  *)
(* sees a zero syndrome at every rotation step of a codeword.              *)
(***************************************************************************)
Syndrome(c, w) ==
    IF c = "cyclic" THEN cyclic_syndrome(w) ELSE hamming_syndrome(c, w)

C8_ZeroSyndrome ==
    /\ (pc = "recv" /\ Unwrap(arg) < Pow2(Width(code))) =>
          (Syndrome(code, Unwrap(arg)) = 0 <=> Unwrap(arg) \in Codewords(code))
    /\ (code = "cyclic" /\ pc \in {"fold", "done"}
            /\ Unwrap(arg) \in CyclicCodewords) =>
          \A k \in 1..Len(trace) : trace[k] = "zero"

C8_Witness ==
    /\ code = "cyclic" /\ Returned
    /\ Unwrap(arg) \in CyclicCodewords
    /\ Len(trace) = 17
    /\ \A k \in 1..17 : trace[k] = "zero"

(***************************************************************************)
(* C9. In the 17 steps of cyclic::decode at most one step XORs a pattern   *)
(* into the word, and every step after it sees a zero syndrome. So the     *)
(* last step with a nonzero syndrome decides the result: None if and only  *)
(* if all 17 steps missed the table; and the count returned is the number  *)
(* of bits in which the final 17-bit word differs from the argument.       *)
(***************************************************************************)
Steps(kind) == {k \in 1..Len(trace) : trace[k] = kind}

C9_OneCorrection ==
    (code = "cyclic" /\ pc \in {"fold", "done"}) =>
        /\ Cardinality(Steps("fix")) <= 1
        /\ \A j \in Steps("fix") :
              \A k \in (j + 1)..Len(trace) : trace[k] = "zero"
        /\ Returned =>
              /\ Len(trace) = 17
              /\ result = None <=> Steps("miss") = 1..17
              /\ \A k \in 1..17 :
                    (\A l \in (k + 1)..17 : trace[l] = "zero") =>
                        /\ trace[k] = "miss" => result = None
                        /\ trace[k] = "fix" => result # None
              /\ Steps("zero") = 1..17 =>
                    result # None /\ Unwrap(result)[2] = 0
              /\ result # None =>
                    Unwrap(result)[2] = Distance(word, Unwrap(arg))

\* A step that missed the table, overwritten by a later correction.
C9_Witness ==
    /\ code = "cyclic" /\ Returned
    /\ trace[1] = "miss"
    /\ Steps("fix") # {}
    /\ result # None
    /\ Unwrap(result)[2] = 2

(***************************************************************************)
(* C10. As claimed: no decode call aborts, whatever its 16-bit argument.   *)
(***************************************************************************)
C10_NeverAborts == pc # "decode_abort"

(***************************************************************************)
(* C10, amended. cyclic::decode never aborts, and the Hamming decoders     *)
(* abort exactly for the arguments with a bit set above the code's width   *)
(* (bit 15 for standard, bits 10..15 for shortened); every other call      *)
(* returns None or Some((data, count)).                                    *)
(***************************************************************************)
C10_AbortsOnlyOutOfWidth ==
    /\ pc = "decode_abort" =>
          /\ code \in Hamming
          /\ Unwrap(arg) >= Pow2(Width(code))
          /\ result = None
    /\ Returned =>
          /\ Unwrap(arg) < Pow2(Width(code))
          /\ \/ result = None
             \/ /\ Len(result) = 1
                /\ Len(Unwrap(result)) = 2
                /\ Unwrap(result)[1] \in DataWords(code)
                /\ Unwrap(result)[2] \in 0..2

C10_Witness ==
    /\ code = "standard"
    /\ pc = "decode_abort"
    /\ arg = Some(32768)

====
